---- MODULE Spec2Model ----
(***************************************************************************)
(* Model of the password hashing service (services/hash.ts): salt          *)
(* generation, per-algorithm hashing, algorithm dispatch in hashPassword   *)
(* and verifyPassword; and of their callers: the user store               *)
(* (services/store.ts), the Register and Login forms and the App.          *)
(*                                                                         *)
(* A JavaScript string is a sequence of UTF-16 code units (numbers         *)
(* 0..65535); a byte array is a sequence of numbers 0..255.  Algorithm     *)
(* tags are TLA+ strings, they are only ever compared for equality.        *)
(***************************************************************************)
EXTENDS Integers, Sequences, FiniteSets, TLC

VARIABLES
    latest,   \* the result of the most recent hashPassword call that returned,
              \* with the arguments of that call and the bytes it drew
    earlier,  \* a result the caller kept from an earlier hashPassword call
    last,     \* the most recent call: its arguments and how it completed
    gen,      \* the most recent generateSalt call: length, bytes drawn, result
    calls,    \* per caller, the hashPassword or verifyPassword call it has
              \* in flight (suspended at an await), with the call's locals
    users,    \* localStorage['users_database'], parsed: the User records
    regs,     \* the handleRegister runs suspended at await hashPassword
    logins,   \* the handleLogin runs suspended at await verifyPassword
    timers,   \* the pending setTimeout callbacks of handleLogin
    currentView,   \* App state
    loggedInUser,  \* App state
    lastLogin,     \* how the most recent handleLogin run ended
    lastRegister   \* how the most recent handleRegister run ended, and
                   \* with which form input if it registered a user

hashVars == <<latest, earlier, last>>
appVars == <<users, regs, logins, timers, currentView, loggedInUser,
             lastLogin, lastRegister>>
vars == <<latest, earlier, last, gen, calls, users, regs, logins, timers,
          currentView, loggedInUser, lastLogin, lastRegister>>

(***************************************************************************)
(* Bounds of the model.                                                    *)
(***************************************************************************)
\* bytes drawn by generateSalt() (its default length, scaled down)
SaltBytes == 1

(***************************************************************************)
(* Inputs.                                                                 *)
(***************************************************************************)
\* passwords, as code units: 97 is "a" (also a hex digit), 233 is e-acute,
\* 55357 a high surrogate and 56832 a low surrogate (together U+1F600)
Passwords ==
    { <<97>>, <<97, 55357>>, <<97, 56832>>, <<233, 55357, 56832>> }

SupportedAlgorithms == {"MD5", "SHA-1", "SHA-256", "SHA-512", "bcrypt"}
\* the tags a caller can pass at run time: the five of the type plus one
\* outside it
AlgorithmTags == SupportedAlgorithms \cup {"ROT13"}

\* values the random source may put in a byte: 10 -> "0a", 170 -> "aa"
ByteVals == {10, 170}

RECURSIVE SeqsOf(_, _)
SeqsOf(S, n) ==
    IF n = 0 THEN {<<>>}
    ELSE {<<x>> \o t : x \in S, t \in SeqsOf(S, n - 1)}

\* the salts bcrypt may generate for itself
BcryptSalts == {1, 2}

\* generateSalt is called on its own with lengths 1..MaxSaltLength and with
\* its default
MaxSaltLength == 3

\* the shortest password handleRegister accepts (12 in Register.tsx:67,
\* scaled down with the passwords tried)
MinPasswordLength == 2

\* the most handleRegister runs, handleLogin runs and timers pending at once
MaxRegistering == 2
MaxLoggingIn == 1
MaxTimers == 1

\* the byte values a direct generateSalt call draws from: both ends of the
\* range, and values around the one-digit/two-digit boundary of hex
SaltByteVals == {0, 10, 15, 16, 255}

(***************************************************************************)
(* Completions of a call: a value returned or an error thrown.             *)
(***************************************************************************)
Return(v) == [threw |-> FALSE, error |-> "", value |-> v]
Throw(e, v) == [threw |-> TRUE, error |-> e, value |-> v]

(***************************************************************************)
(* Platform primitives.                                                    *)
(***************************************************************************)
\* crypto.getRandomValues(array): fills the array or throws
RandomOutcomes(length) ==
    {[ok |-> TRUE, bytes |-> b] : b \in SeqsOf(ByteVals, length)}
        \cup {[ok |-> FALSE, bytes |-> <<>>]}

\* Number.prototype.toString(16) of one hex digit
HexDigit(n) == IF n < 10 THEN 48 + n ELSE 87 + n

\* byte.toString(16) without the padding
ByteToHexUnpadded(b) ==
    IF b < 16 THEN <<HexDigit(b)>> ELSE <<HexDigit(b \div 16), HexDigit(b % 16)>>

\* byte.toString(16).padStart(2, '0')
ByteToHex(b) == <<HexDigit(b \div 16), HexDigit(b % 16)>>

\* Array.from(bytes, ByteToHex).join('')
RECURSIVE HexEncode(_)
HexEncode(bytes) ==
    IF bytes = <<>> THEN <<>>
    ELSE ByteToHex(Head(bytes)) \o HexEncode(Tail(bytes))

IsHighSurrogate(c) == c >= 55296 /\ c <= 56319
IsLowSurrogate(c) == c >= 56320 /\ c <= 57343

\* UTF-8 bytes of one Unicode scalar value
Utf8OfCodePoint(cp) ==
    IF cp < 128 THEN <<cp>>
    ELSE IF cp < 2048 THEN <<192 + (cp \div 64), 128 + (cp % 64)>>
    ELSE IF cp < 65536 THEN
        <<224 + (cp \div 4096), 128 + ((cp \div 64) % 64), 128 + (cp % 64)>>
    ELSE
        <<240 + (cp \div 262144), 128 + ((cp \div 4096) % 64),
          128 + ((cp \div 64) % 64), 128 + (cp % 64)>>

\* new TextEncoder().encode(s): a surrogate pair is one code point, an
\* unpaired surrogate is replaced by U+FFFD (65533)
RECURSIVE TextEncoderEncode(_)
TextEncoderEncode(s) ==
    IF s = <<>> THEN <<>>
    ELSE LET c == Head(s) IN
        IF IsHighSurrogate(c) /\ Len(s) >= 2 /\ IsLowSurrogate(s[2])
        THEN Utf8OfCodePoint(65536 + (c - 55296) * 1024 + (s[2] - 56320))
                 \o TextEncoderEncode(Tail(Tail(s)))
        ELSE IF IsHighSurrogate(c) \/ IsLowSurrogate(c)
        THEN Utf8OfCodePoint(65533) \o TextEncoderEncode(Tail(s))
        ELSE Utf8OfCodePoint(c) \o TextEncoderEncode(Tail(s))

\* the longest message the model digests: the longest encoded password
\* followed by two hex digits per salt byte
MaxPasswordBytes ==
    CHOOSE n \in 0..32 :
        /\ \A p \in Passwords : Len(TextEncoderEncode(p)) <= n
        /\ \E p \in Passwords : Len(TextEncoderEncode(p)) = n
MessageCapacity == MaxPasswordBytes + 2 * SaltBytes

DigestTag(name) ==
    CASE name = "SHA-1" -> <<1>>
      [] name = "SHA-256" -> <<2, 2>>
      [] name = "SHA-512" -> <<3, 3, 3>>

\* crypto.subtle.digest(name, msg): a fixed-width, collision-free stand-in
\* for the named digest (the message zero-padded to the capacity, its
\* length, and a tag whose width differs by digest)
SubtleDigest(name, msg) ==
    msg \o [i \in 1..(MessageCapacity - Len(msg)) |-> 0]
        \o <<Len(msg)>> \o DigestTag(name)

\* bcrypt.hash(password, rounds) with the salt it generated: the encoded
\* string carries a marker ("$"), the cost and the salt in front of the
\* password-dependent part
BcryptHash(password, rounds, bsalt) == <<36, rounds, bsalt>> \o password

\* bcrypt.compare(password, hash): re-hash with the cost and salt embedded
\* in hash; a string that is no bcrypt hash matches nothing
BcryptCompare(password, hash) ==
    /\ Len(hash) >= 3
    /\ hash[1] = 36
    /\ BcryptHash(password, hash[2], hash[3]) = hash

\* a comparison that looks at the lengths only
StrictEqualsLengthOnly(a, b) == Len(a) = Len(b)

\* a === b on strings
StrictEquals(a, b) == a = b

\* code units a === b reads before it answers: none when the lengths
\* differ, otherwise up to and including the first difference
CompareWork(a, b) ==
    IF Len(a) # Len(b) THEN 0
    ELSE IF a = b THEN Len(a)
    ELSE CHOOSE i \in 1..Len(a) :
             a[i] # b[i] /\ \A j \in 1..(i - 1) : a[j] = b[j]

(***************************************************************************)
(* services/hash.ts                                                        *)
(***************************************************************************)
\* a generateSalt that returns the same salt whatever bytes were drawn
generateSaltFixed(length, rnd) ==
    IF ~rnd.ok THEN Throw("getRandomValues failed", <<>>)
    ELSE Return(HexEncode([i \in 1..length |-> 0]))

\* a generateSalt that answers a failure of the random source with a salt
\* from another source
generateSaltFallback(length, rnd) ==
    IF ~rnd.ok THEN Return(HexEncode([i \in 1..length |-> 7]))
    ELSE Return(HexEncode(rnd.bytes))

\* generateSalt(length) when getRandomValues answers rnd
generateSalt(length, rnd) ==
    IF ~rnd.ok THEN Throw("getRandomValues failed", <<>>)
    ELSE Return(HexEncode(rnd.bytes))

\* a hashMD5 that computes a digest of its own instead of SHA-256
hashMD5Genuine(password, salt) ==
    HexEncode(TextEncoderEncode(password \o salt)
                  \o [i \in 1..(MessageCapacity
                                   - Len(TextEncoderEncode(password \o salt)))
                         |-> 0]
                  \o <<Len(TextEncoderEncode(password \o salt)), 5, 5>>)

hashMD5(password, salt) ==
    HexEncode(SubtleDigest("SHA-256", TextEncoderEncode(password \o salt)))

hashSHA1(password, salt) ==
    HexEncode(SubtleDigest("SHA-1", TextEncoderEncode(password \o salt)))

\* a hashSHA256 that puts the salt in front of the password
hashSHA256Prepend(password, salt) ==
    HexEncode(SubtleDigest("SHA-256", TextEncoderEncode(salt \o password)))

hashSHA256(password, salt) ==
    HexEncode(SubtleDigest("SHA-256", TextEncoderEncode(password \o salt)))

hashSHA512(password, salt) ==
    HexEncode(SubtleDigest("SHA-512", TextEncoderEncode(password \o salt)))

saltRounds == 10

hashBcrypt(password, bsalt) == BcryptHash(password, saltRounds, bsalt)

NoResult == [hashedPassword |-> <<>>, salt |-> <<>>, algorithm |-> ""]

\* the switch of hashPassword: the hash under the tag, or the error of the
\* default arm
HashSwitch(password, salt, algorithm) ==
    CASE algorithm = "MD5" -> Return(hashMD5(password, salt))
      [] algorithm = "SHA-1" -> Return(hashSHA1(password, salt))
      [] algorithm = "SHA-256" -> Return(hashSHA256(password, salt))
      [] algorithm = "SHA-512" -> Return(hashSHA512(password, salt))
      [] OTHER -> Throw("Unsupported algorithm", <<>>)

\* a hashPassword that returns the record of a digest algorithm without
\* its salt
hashPasswordDropsSalt(password, algorithm, rnd, bsalt) ==
    IF algorithm = "bcrypt"
    THEN Return([hashedPassword |-> hashBcrypt(password, bsalt),
                 salt |-> <<>>,
                 algorithm |-> algorithm])
    ELSE LET s == generateSalt(SaltBytes, rnd) IN
        IF s.threw THEN Throw(s.error, NoResult)
        ELSE LET h == HashSwitch(password, s.value, algorithm) IN
            IF h.threw THEN Throw(h.error, NoResult)
            ELSE Return([hashedPassword |-> h.value,
                         salt |-> <<>>,
                         algorithm |-> algorithm])

\* hashPassword(password, algorithm); rnd is what getRandomValues answers
\* if it is asked, bsalt the salt bcrypt generates if it is asked
hashPassword(password, algorithm, rnd, bsalt) ==
    IF algorithm = "bcrypt"
    THEN Return([hashedPassword |-> hashBcrypt(password, bsalt),
                 salt |-> <<>>,
                 algorithm |-> algorithm])
    ELSE LET s == generateSalt(SaltBytes, rnd) IN
        IF s.threw THEN Throw(s.error, NoResult)
        ELSE LET h == HashSwitch(password, s.value, algorithm) IN
            IF h.threw THEN Throw(h.error, NoResult)
            ELSE Return([hashedPassword |-> h.value,
                         salt |-> s.value,
                         algorithm |-> algorithm])

\* the number of requests hashPassword makes to the random source
RandomRequests(algorithm) == IF algorithm = "bcrypt" THEN 0 ELSE 1

\* a switch whose SHA-1 arm calls the SHA-256 function
NewHashSwapped(password, salt, algorithm) ==
    CASE algorithm = "MD5" -> Return(hashMD5(password, salt))
      [] algorithm = "SHA-1" -> Return(hashSHA256(password, salt))
      [] algorithm = "SHA-256" -> Return(hashSHA256(password, salt))
      [] algorithm = "SHA-512" -> Return(hashSHA512(password, salt))
      [] OTHER -> Throw("Unsupported algorithm", <<>>)

\* a switch whose default arm leaves newHash empty instead of throwing
NewHashDefaulting(password, salt, algorithm) ==
    CASE algorithm = "MD5" -> Return(hashMD5(password, salt))
      [] algorithm = "SHA-1" -> Return(hashSHA1(password, salt))
      [] algorithm = "SHA-256" -> Return(hashSHA256(password, salt))
      [] algorithm = "SHA-512" -> Return(hashSHA512(password, salt))
      [] OTHER -> Return(<<>>)

\* the switch of verifyPassword: the recomputed hash, or the error of the
\* default arm
NewHash(password, salt, algorithm) ==
    CASE algorithm = "MD5" -> Return(hashMD5(password, salt))
      [] algorithm = "SHA-1" -> Return(hashSHA1(password, salt))
      [] algorithm = "SHA-256" -> Return(hashSHA256(password, salt))
      [] algorithm = "SHA-512" -> Return(hashSHA512(password, salt))
      [] OTHER -> Throw("Unsupported algorithm", <<>>)

\* a verifyPassword that hands bcrypt the salt argument as the hash
verifyPasswordBcryptSalt(password, storedHash, salt, algorithm) ==
    IF algorithm = "bcrypt"
    THEN Return(BcryptCompare(password, salt))
    ELSE LET newHash == NewHash(password, salt, algorithm) IN
        IF newHash.threw THEN Throw(newHash.error, FALSE)
        ELSE Return(StrictEquals(newHash.value, storedHash))

\* verifyPassword(password, storedHash, salt, algorithm)
verifyPassword(password, storedHash, salt, algorithm) ==
    IF algorithm = "bcrypt"
    THEN Return(BcryptCompare(password, storedHash))
    ELSE LET newHash == NewHash(password, salt, algorithm) IN
        IF newHash.threw THEN Throw(newHash.error, FALSE)
        ELSE Return(StrictEquals(newHash.value, storedHash))

\* the work of the comparison in verifyPassword, 0 where none is made
VerifyWork(password, storedHash, salt, algorithm) ==
    LET newHash == NewHash(password, salt, algorithm) IN
    IF algorithm = "bcrypt" \/ newHash.threw THEN 0
    ELSE CompareWork(newHash.value, storedHash)

(***************************************************************************)
(* The state machine: a caller that hashes passwords and verifies          *)
(* passwords against the result it holds.  hash.ts keeps no state of its   *)
(* own; the state is what the caller has seen.                             *)
(***************************************************************************)
NoRnd == [ok |-> TRUE, bytes |-> <<>>]

NoRecord ==
    [present |-> FALSE, password |-> <<>>, algorithm |-> "", rnd |-> NoRnd,
     result |-> NoResult]

NoCall ==
    [op |-> "none", password |-> <<>>, algorithm |-> "", rnd |-> NoRnd,
     requests |-> 0, threw |-> FALSE, error |-> "", valid |-> FALSE,
     work |-> 0]

NoSalt == [length |-> 0, rnd |-> NoRnd, threw |-> FALSE, value |-> <<>>]

Callers == {"c1", "c2"}

NoFrame ==
    [op |-> "idle", password |-> <<>>, storedHash |-> <<>>, salt |-> <<>>,
     algorithm |-> "", rnd |-> NoRnd]

NoLogin == [outcome |-> "none"]

NoRegister == [outcome |-> "none", username |-> <<>>, password |-> <<>>]

Init ==
    /\ latest = NoRecord
    /\ earlier = NoRecord
    /\ last = NoCall
    /\ gen = NoSalt
    /\ calls = [c \in Callers |-> NoFrame]
    /\ users = <<>>
    /\ regs = <<>>
    /\ logins = <<>>
    /\ timers = <<>>
    /\ currentView = "register"
    /\ loggedInUser = <<>>
    /\ lastLogin = NoLogin
    /\ lastRegister = NoRegister

\* one call of hashPassword, to completion
HashPassword(password, algorithm, rnd, bsalt) ==
    LET c == hashPassword(password, algorithm, rnd, bsalt)
        drawn == IF algorithm = "bcrypt" THEN NoRnd ELSE rnd
    IN
    /\ latest' =
           IF c.threw THEN latest
           ELSE [present |-> TRUE, password |-> password,
                 algorithm |-> algorithm, rnd |-> drawn, result |-> c.value]
    /\ last' = [NoCall EXCEPT !.op = "hash", !.password = password,
                              !.algorithm = algorithm, !.rnd = drawn,
                              !.requests = RandomRequests(algorithm),
                              !.threw = c.threw, !.error = c.error]
    /\ UNCHANGED <<earlier, gen, calls, appVars>>

\* one call of verifyPassword, to completion, with the hash and salt of the
\* result the caller holds, under any algorithm tag
VerifyPassword(password, algorithm) ==
    LET r == latest.result
        c == verifyPassword(password, r.hashedPassword, r.salt, algorithm)
    IN
    /\ latest.present
    /\ last' = [NoCall EXCEPT !.op = "verify", !.password = password,
                              !.algorithm = algorithm,
                              !.threw = c.threw, !.error = c.error,
                              !.valid = c.value,
                              !.work = VerifyWork(password, r.hashedPassword,
                                                  r.salt, algorithm)]
    /\ UNCHANGED <<latest, earlier, gen, calls, appVars>>

\* the caller puts the result it holds aside
Keep ==
    /\ latest.present
    /\ earlier' = latest
    /\ latest' = NoRecord
    /\ UNCHANGED <<last, gen, calls, appVars>>

HashBcryptCall ==
    \E password \in Passwords, bsalt \in BcryptSalts :
        HashPassword(password, "bcrypt", NoRnd, bsalt)

HashDigestCall ==
    \E password \in Passwords, algorithm \in AlgorithmTags \ {"bcrypt"},
       rnd \in RandomOutcomes(SaltBytes) :
        HashPassword(password, algorithm, rnd, 0)

VerifyCall ==
    \E password \in Passwords, algorithm \in AlgorithmTags :
        VerifyPassword(password, algorithm)

Next ==
    \/ HashBcryptCall
    \/ HashDigestCall
    \/ VerifyCall

Spec == Init /\ [][Next]_vars

\* a caller that only hashes, with the digest algorithms and a random source
\* that answers, and keeps results aside: any two results of a sequence of
\* calls appear as earlier and latest
HashAgain ==
    \E password \in Passwords,
       algorithm \in SupportedAlgorithms \ {"bcrypt"},
       rnd \in {o \in RandomOutcomes(SaltBytes) : o.ok} :
        HashPassword(password, algorithm, rnd, 0)

NextSalts ==
    \/ HashAgain
    \/ Keep

SpecSalts == Init /\ [][NextSalts]_vars

(***************************************************************************)
(* Calls in flight.  hashPassword and verifyPassword are async functions:  *)
(* a call runs to its first await (crypto.subtle.digest), is suspended     *)
(* with its parameters and locals, and is resumed later; other calls start *)
(* and finish in between.                                                  *)
(***************************************************************************)
AsyncPasswords == { <<97>>, <<97, 55357>> }

AsyncTags == {"SHA-256", "SHA-1"}

\* the random source of these runs answers with one repeated byte, or fails
AsyncRandom ==
    {o \in RandomOutcomes(SaltBytes) :
        o.ok => \A i \in 1..Len(o.bytes) : o.bytes[i] = o.bytes[1]}

\* a module with one set of locals that every call in flight writes
LocalsShared(frames, c) ==
    LET others == {d \in Callers \ {c} : frames[d].op = frames[c].op}
    IN IF others = {} THEN frames[c] ELSE frames[CHOOSE d \in others : TRUE]

\* the parameters and locals a resumed call reads: its own
Locals(frames, c) == frames[c]

\* hashPassword up to its await: the salt is drawn (line 157) before it
StartHash(c, password, algorithm, rnd) ==
    /\ calls[c].op = "idle"
    /\ calls' = [calls EXCEPT ![c] =
                    [NoFrame EXCEPT !.op = "hash", !.password = password,
                                    !.algorithm = algorithm, !.rnd = rnd]]
    /\ UNCHANGED <<hashVars, gen, appVars>>

\* verifyPassword up to its await, called with the hash and salt of the
\* result the caller holds
StartVerify(c, password, algorithm) ==
    /\ calls[c].op = "idle"
    /\ latest.present
    /\ calls' = [calls EXCEPT ![c] =
                    [NoFrame EXCEPT !.op = "verify", !.password = password,
                                    !.storedHash = latest.result.hashedPassword,
                                    !.salt = latest.result.salt,
                                    !.algorithm = algorithm]]
    /\ UNCHANGED <<hashVars, gen, appVars>>

\* the call of c is resumed and settles: its caller gets the result
Finish(c) ==
    LET f == Locals(calls, c)
        h == hashPassword(f.password, f.algorithm, f.rnd, 0)
        v == verifyPassword(f.password, f.storedHash, f.salt, f.algorithm)
    IN
    /\ calls[c].op # "idle"
    /\ calls' = [calls EXCEPT ![c] = NoFrame]
    /\ IF f.op = "hash"
       THEN /\ latest' =
                   IF h.threw THEN latest
                   ELSE [present |-> TRUE, password |-> f.password,
                         algorithm |-> f.algorithm, rnd |-> f.rnd,
                         result |-> h.value]
            /\ last' = [NoCall EXCEPT !.op = "hash", !.threw = h.threw,
                                      !.error = h.error]
       ELSE /\ latest' = latest
            /\ last' = [NoCall EXCEPT !.op = "verify", !.threw = v.threw,
                                      !.error = v.error, !.valid = v.value]
    /\ UNCHANGED <<earlier, gen, appVars>>

StartHashCall ==
    \E c \in Callers, password \in AsyncPasswords, rnd \in AsyncRandom :
        StartHash(c, password, "SHA-256", rnd)

StartVerifyCall ==
    \E c \in Callers, password \in AsyncPasswords, algorithm \in AsyncTags :
        StartVerify(c, password, algorithm)

FinishCall == \E c \in Callers : Finish(c)

NextAsync ==
    \/ StartHashCall
    \/ StartVerifyCall
    \/ FinishCall

SpecAsync == Init /\ [][NextAsync]_vars

(***************************************************************************)
(* generateSalt called on its own.                                         *)
(***************************************************************************)
\* length = 32
DefaultSaltLength == 32

\* new Uint8Array(length) after crypto.getRandomValues: length bytes, or
\* the call throws
SaltOutcomes(length) ==
    {[ok |-> TRUE, bytes |-> b] : b \in SeqsOf(SaltByteVals, length)}
        \cup {[ok |-> FALSE, bytes |-> <<>>]}

\* some fillings of the default 32-byte array
DefaultOutcomes ==
    {[ok |-> TRUE,
      bytes |-> [i \in 1..DefaultSaltLength |-> (k * i * i + 7 * k * i) % 256]]
        : k \in {0, 1, 5, 255}}
        \cup {[ok |-> TRUE, bytes |-> [i \in 1..DefaultSaltLength |-> 255]]}

GenerateSalt(length, rnd) ==
    LET c == generateSalt(length, rnd)
    IN
    /\ gen' = [length |-> length, rnd |-> rnd, threw |-> c.threw,
               value |-> c.value]
    /\ UNCHANGED <<hashVars, calls, appVars>>

\* generateSalt(n)
GenerateSaltCall ==
    \E length \in 1..MaxSaltLength :
        \E rnd \in SaltOutcomes(length) : GenerateSalt(length, rnd)

\* generateSalt()
GenerateSaltDefault ==
    \E rnd \in DefaultOutcomes : GenerateSalt(DefaultSaltLength, rnd)

NextGen ==
    \/ GenerateSaltCall
    \/ GenerateSaltDefault

SpecGen == Init /\ [][NextGen]_vars

(***************************************************************************)
(* services/store.ts.  The store is the array of User records kept as JSON *)
(* under localStorage['users_database']; users is that array (createdAt,   *)
(* a timestamp no function reads, is left out of the records).             *)
(***************************************************************************)
\* WhiteSpace and LineTerminator code units, which String.prototype.trim
\* strips
IsWhiteSpace(c) ==
    c \in {9, 10, 11, 12, 13, 32, 160, 5760, 8232, 8233, 8239, 8287, 12288,
           65279} \cup (8192..8202)

RECURSIVE TrimStart(_)
TrimStart(s) ==
    IF s = <<>> \/ ~IsWhiteSpace(Head(s)) THEN s ELSE TrimStart(Tail(s))

RECURSIVE TrimEnd(_)
TrimEnd(s) ==
    IF s = <<>> \/ ~IsWhiteSpace(s[Len(s)]) THEN s
    ELSE TrimEnd(SubSeq(s, 1, Len(s) - 1))

\* s.trim()
Trim(s) == TrimEnd(TrimStart(s))

\* s.toLowerCase(), on the Basic Latin letters the usernames tried are made of
ToLowerCase(s) ==
    [i \in 1..Len(s) |-> IF s[i] >= 65 /\ s[i] <= 90 THEN s[i] + 32 ELSE s[i]]

NoUser == [username |-> <<>>, hashedPassword |-> <<>>, salt |-> <<>>,
           algorithm |-> ""]

\* users.find(user => user.username.toLowerCase() === username.toLowerCase())
findUserByUsername(us, username) ==
    LET hits == {i \in 1..Len(us) :
                    ToLowerCase(us[i].username) = ToLowerCase(username)}
    IN IF hits = {} THEN [found |-> FALSE, user |-> NoUser]
       ELSE [found |-> TRUE,
             user |-> us[CHOOSE i \in hits : \A j \in hits : i <= j]]

isUsernameExists(us, username) == findUserByUsername(us, username).found

\* a registerUser without the check for a taken name
registerUserUnchecked(us, user, quota) ==
    IF user.username = <<>> \/ Trim(user.username) = <<>>
    THEN Throw("username required", us)
    ELSE IF user.hashedPassword = <<>>
    THEN Throw("invalid password data", us)
    ELSE IF ~quota THEN Throw("cannot save", us)
    ELSE Return(Append(us, user))

\* registerUser(user) on the store us; quota tells whether
\* localStorage.setItem succeeds.  The value is the store afterwards.
registerUser(us, user, quota) ==
    IF isUsernameExists(us, user.username)
    THEN Throw("username taken", us)
    ELSE IF user.username = <<>> \/ Trim(user.username) = <<>>
    THEN Throw("username required", us)
    ELSE IF user.hashedPassword = <<>>
    THEN Throw("invalid password data", us)
    ELSE IF ~quota THEN Throw("cannot save", us)
    ELSE Return(Append(us, user))

\* users.filter(user => user.username.toLowerCase() !== username.toLowerCase())
RECURSIVE FilterOut(_, _)
FilterOut(us, username) ==
    IF us = <<>> THEN <<>>
    ELSE IF ToLowerCase(Head(us).username) = ToLowerCase(username)
    THEN FilterOut(Tail(us), username)
    ELSE <<Head(us)>> \o FilterOut(Tail(us), username)

\* deleteUser(username): the store afterwards
deleteUser(us, username, quota) ==
    LET filteredUsers == FilterOut(us, username) IN
    IF Len(filteredUsers) = Len(us) THEN Return(us)
    ELSE IF ~quota THEN Throw("cannot save", us)
    ELSE Return(filteredUsers)

\* clearAllUsers(): the store afterwards; removed tells whether
\* localStorage.removeItem succeeds
clearAllUsers(us, removed) == IF removed THEN <<>> ELSE us

(***************************************************************************)
(* components/Register.tsx, components/Login.tsx and App.tsx.  A handler   *)
(* run reads the form fields when it starts, is suspended at its await and *)
(* resumed later; its 1500 ms timer fires later still and is never         *)
(* cancelled.  Runs may overlap: a form that was unmounted and mounted     *)
(* again starts a new run while an old one is in flight.                   *)
(***************************************************************************)
\* username.length < 3
MinUsernameLength == 3

\* "   ", "ab", " a ", "bob", "Bob "
FormUsernames ==
    { <<32, 32, 32>>, <<97, 98>>, <<32, 97, 32>>, <<98, 111, 98>>,
      <<66, 111, 98, 32>> }

ShortPassword == [i \in 1..(MinPasswordLength - 1) |-> 97]
PasswordA == [i \in 1..MinPasswordLength |-> 97]
PasswordB == [i \in 1..MinPasswordLength |-> 98]

FormPasswords == { <<>>, ShortPassword, PasswordA, PasswordB }

\* the random source of the form runs: one filling of the array, or failure
FormRandom ==
    {[ok |-> TRUE, bytes |-> [i \in 1..SaltBytes |-> 170]],
     [ok |-> FALSE, bytes |-> <<>>]}

\* the checks of handleRegister before the hash: the error thrown, or ""
RegisterValidation(us, username, password, confirmPassword) ==
    IF Trim(username) = <<>> THEN "username required"
    ELSE IF Len(username) < MinUsernameLength THEN "username too short"
    ELSE IF password = <<>> THEN "password required"
    ELSE IF Len(password) < MinPasswordLength THEN "password too short"
    ELSE IF password # confirmPassword THEN "passwords differ"
    ELSE IF isUsernameExists(us, username) THEN "username taken"
    ELSE ""

\* handleRegister from the hash on, for the form input f: the store
\* afterwards, or the error caught
RegisterCompletion(us, f, rnd, bsalt, quota) ==
    LET hashResult == hashPassword(f.password, f.algorithm, rnd, bsalt) IN
    IF hashResult.threw THEN Throw(hashResult.error, us)
    ELSE registerUser(us,
                      [username |-> Trim(f.username),
                       hashedPassword |-> hashResult.value.hashedPassword,
                       salt |-> hashResult.value.salt,
                       algorithm |-> hashResult.value.algorithm],
                      quota)

Registered(f) ==
    [outcome |-> "registered", username |-> f.username,
     password |-> f.password]

RegisterError == [NoRegister EXCEPT !.outcome = "error"]

RemoveAt(q, i) == SubSeq(q, 1, i - 1) \o SubSeq(q, i + 1, Len(q))

\* handleRegister up to await hashPassword.  A run that fails a check ends
\* in the catch block.  (The salt hashPassword draws before its await
\* depends on nothing else, and is drawn when the run is resumed.)
RegisterStart(username, password, confirmPassword, algorithm) ==
    LET e == RegisterValidation(users, username, password, confirmPassword)
    IN
    /\ currentView = "register"
    /\ IF e # ""
       THEN /\ lastRegister' = RegisterError
            /\ regs' = regs
       ELSE /\ Len(regs) < MaxRegistering
            /\ regs' = Append(regs, [username |-> username,
                                     password |-> password,
                                     algorithm |-> algorithm])
            /\ lastRegister' = lastRegister
    /\ UNCHANGED <<hashVars, gen, calls, users, logins, timers, currentView,
                   loggedInUser, lastLogin>>

\* the i-th suspended handleRegister run is resumed and runs to its end
RegisterFinish(i, rnd, bsalt, quota) ==
    LET c == RegisterCompletion(users, regs[i], rnd, bsalt, quota) IN
    /\ regs' = RemoveAt(regs, i)
    /\ users' = c.value
    /\ IF c.threw
       THEN /\ lastRegister' = RegisterError
            /\ timers' = timers
       ELSE /\ Len(timers) < MaxTimers
            /\ lastRegister' = Registered(regs[i])
            /\ timers' = Append(timers, [kind |-> "register",
                                         username |-> <<>>])
    /\ UNCHANGED <<hashVars, gen, calls, logins, currentView, loggedInUser,
                   lastLogin>>

\* a handleRegister run that nothing else interleaves with
RegisterRun(username, password, confirmPassword, algorithm, rnd, bsalt, quota) ==
    LET e == RegisterValidation(users, username, password, confirmPassword)
        f == [username |-> username, password |-> password,
              algorithm |-> algorithm]
        c == RegisterCompletion(users, f, rnd, bsalt, quota)
    IN
    /\ currentView = "register"
    /\ IF e # "" \/ c.threw
       THEN /\ lastRegister' = RegisterError
            /\ UNCHANGED <<users, timers>>
       ELSE /\ Len(timers) < MaxTimers
            /\ users' = c.value
            /\ lastRegister' = Registered(f)
            /\ timers' = Append(timers, [kind |-> "register",
                                         username |-> <<>>])
    /\ UNCHANGED <<hashVars, gen, calls, regs, logins, currentView,
                   loggedInUser, lastLogin>>

\* a handleLogin that brings the record up to date when the password is right
LoginStoreEffectRehash(us, user, isValid) ==
    IF isValid
    THEN [i \in 1..Len(us) |->
            IF us[i].username = user.username
            THEN [us[i] EXCEPT !.algorithm = "bcrypt"]
            ELSE us[i]]
    ELSE us

\* what handleLogin writes to the store: nothing (findUserByUsername is
\* the only store function it calls)
LoginStoreEffect(us, user, isValid) == us

\* handleLogin up to await verifyPassword
LoginStart(username, password) ==
    LET found == findUserByUsername(users, username) IN
    /\ currentView = "login"
    /\ IF Trim(username) = <<>> \/ password = <<>>
       THEN /\ lastLogin' = [outcome |-> "rejected"]
            /\ logins' = logins
       ELSE IF ~found.found
       THEN /\ lastLogin' = [outcome |-> "notfound"]
            /\ logins' = logins
       ELSE /\ Len(logins) < MaxLoggingIn
            /\ logins' = Append(logins, [password |-> password,
                                         user |-> found.user])
            /\ lastLogin' = lastLogin
    /\ UNCHANGED <<hashVars, gen, calls, users, regs, timers, currentView,
                   loggedInUser, lastRegister>>

\* the i-th suspended handleLogin run is resumed and runs to its end
LoginFinish(i) ==
    LET f == logins[i]
        isValid == verifyPassword(f.password, f.user.hashedPassword,
                                  f.user.salt, f.user.algorithm)
        ok == ~isValid.threw /\ isValid.value
    IN
    /\ logins' = RemoveAt(logins, i)
    /\ users' = LoginStoreEffect(users, f.user, ok)
    /\ IF ok
       THEN /\ Len(timers) < MaxTimers
            /\ lastLogin' = [outcome |-> "success"]
            /\ timers' = Append(timers, [kind |-> "login",
                                         username |-> f.user.username])
       ELSE /\ lastLogin' = [outcome |-> "wrong"]
            /\ timers' = timers
    /\ UNCHANGED <<hashVars, gen, calls, regs, currentView, loggedInUser,
                   lastRegister>>

\* a timer fires: onRegisterSuccess is App's handleRegisterSuccess,
\* onLoginSuccess(user.username) is App's handleLoginSuccess
TimerFire(i) ==
    /\ timers' = RemoveAt(timers, i)
    /\ IF timers[i].kind = "register"
       THEN /\ currentView' = "login"
            /\ loggedInUser' = loggedInUser
       ELSE /\ loggedInUser' = timers[i].username
            /\ currentView' = "success"
    /\ UNCHANGED <<hashVars, gen, calls, users, regs, logins, lastLogin,
                   lastRegister>>

\* handleLogout, from the button of the success view
Logout ==
    /\ currentView = "success"
    /\ loggedInUser' = <<>>
    /\ currentView' = "login"
    /\ UNCHANGED <<hashVars, gen, calls, users, regs, logins, timers,
                   lastLogin, lastRegister>>

\* handleResetSystem, from the footer button, once the user has confirmed
ResetSystem(removed) ==
    /\ users' = clearAllUsers(users, removed)
    /\ loggedInUser' = <<>>
    /\ currentView' = "register"
    /\ UNCHANGED <<hashVars, gen, calls, regs, logins, timers, lastLogin,
                   lastRegister>>

\* onSwitchToLogin
SwitchToLogin ==
    /\ currentView = "register"
    /\ currentView' = "login"
    /\ UNCHANGED <<hashVars, gen, calls, users, regs, logins, timers,
                   loggedInUser, lastLogin, lastRegister>>

\* onSwitchToRegister
SwitchToRegister ==
    /\ currentView = "login"
    /\ currentView' = "register"
    /\ UNCHANGED <<hashVars, gen, calls, users, regs, logins, timers,
                   loggedInUser, lastLogin, lastRegister>>

\* a call of deleteUser; an exception of saveAllUsers leaves the store
DeleteUser(username, quota) ==
    /\ users' = deleteUser(users, username, quota).value
    /\ UNCHANGED <<hashVars, gen, calls, regs, logins, timers, currentView,
                   loggedInUser, lastLogin, lastRegister>>

(***************************************************************************)
(* Registrations: handleRegister runs that overlap, with deleteUser and    *)
(* the reset of the store.                                                 *)
(***************************************************************************)
RegisterStartCall ==
    \E username \in FormUsernames, password \in FormPasswords,
       confirmPassword \in {PasswordA, ShortPassword} :
        RegisterStart(username, password, confirmPassword, "SHA-256")

RegisterFinishCall ==
    \E i \in 1..Len(regs), rnd \in FormRandom, quota \in BOOLEAN :
        RegisterFinish(i, rnd, 0, quota)

DeleteUserCall ==
    \E username \in FormUsernames, quota \in BOOLEAN :
        DeleteUser(username, quota)

ResetSystemCall == \E removed \in BOOLEAN : ResetSystem(removed)

TimerFires == \E i \in 1..Len(timers) : TimerFire(i)

NextStore ==
    \/ RegisterStartCall
    \/ RegisterFinishCall
    \/ DeleteUserCall
    \/ ResetSystemCall
    \/ TimerFires
    \/ SwitchToRegister
    \/ SwitchToLogin

SpecStore == Init /\ [][NextStore]_vars

(***************************************************************************)
(* The App: registrations, logins that overlap with everything else, the   *)
(* timers of both forms, logout and reset.                                 *)
(***************************************************************************)
\* the names typed into the forms of the App: "   ", "Bob " and "bob"
AppUsernames == { <<32, 32, 32>>, <<66, 111, 98, 32>>, <<98, 111, 98>> }

RegisterRunCall ==
    \E username \in AppUsernames \ {<<98, 111, 98>>},
       password \in {PasswordA, ShortPassword},
       algorithm \in {"SHA-256", "bcrypt"}, rnd \in FormRandom :
        RegisterRun(username, password, PasswordA, algorithm, rnd, 1, TRUE)

LoginStartCall ==
    \E username \in AppUsernames, password \in {<<>>, PasswordA, PasswordB} :
        LoginStart(username, password)

LoginFinishCall == \E i \in 1..Len(logins) : LoginFinish(i)

NextApp ==
    \/ RegisterRunCall
    \/ LoginStartCall
    \/ LoginFinishCall
    \/ TimerFires
    \/ Logout
    \/ ResetSystemCall
    \/ SwitchToLogin
    \/ SwitchToRegister

SpecApp == Init /\ [][NextApp]_vars

(***************************************************************************)
(* Properties.                                                             *)
(***************************************************************************)
DigestAlgorithms == SupportedAlgorithms \ {"bcrypt"}

\* the digest the code names for a tag (hashMD5 asks for 'SHA-256')
NamedDigest(algorithm) == IF algorithm = "MD5" THEN "SHA-256" ELSE algorithm

\* the last call verified, under the tag of the held record, the password
\* that record was made from
VerifiedOwnPassword ==
    /\ last.op = "verify"
    /\ latest.present
    /\ last.algorithm = latest.algorithm
    /\ last.password = latest.password

\* the last call verified another password under the tag of the held record
VerifiedOtherPassword ==
    /\ last.op = "verify"
    /\ latest.present
    /\ last.algorithm = latest.algorithm
    /\ last.password # latest.password

\* C1: verifying the password a record was made from, with the record's
\* hash, salt and (digest) algorithm, returns true.
C1_RoundTrip ==
    (VerifiedOwnPassword /\ latest.algorithm \in DigestAlgorithms)
        => (~last.threw /\ last.valid)

C1_Witness ==
    /\ VerifiedOwnPassword
    /\ latest.algorithm = "SHA-1"
    /\ latest.password = <<233, 55357, 56832>>
    /\ last.valid

BothDigestRecords ==
    /\ earlier.present
    /\ latest.present
    /\ earlier.algorithm \in DigestAlgorithms
    /\ latest.algorithm \in DigestAlgorithms

SaltIsDrawnInCall(r) ==
    (r.present /\ r.algorithm \in DigestAlgorithms)
        => /\ r.rnd.ok
           /\ Len(r.rnd.bytes) = SaltBytes
           /\ r.result.salt = HexEncode(r.rnd.bytes)

ComparedUnequal(call) ==
    /\ call.op = "verify"
    /\ call.algorithm \in DigestAlgorithms
    /\ ~call.threw
    /\ ~call.valid
    /\ Len(NewHash(call.password, latest.result.salt, call.algorithm).value)
          = Len(latest.result.hashedPassword)

\* C4: two comparisons of equal-length strings against the same stored
\* hash do the same amount of work, wherever the strings first differ.
C4_ConstantTimeCompare ==
    [][(ComparedUnequal(last) /\ ComparedUnequal(last'))
          => last'.work = last.work]_vars

\* C5: a bcrypt record has an empty salt, and verifying the password it
\* was made from against it returns true.
C5_BcryptRoundTrip ==
    /\ (latest.present /\ latest.algorithm = "bcrypt")
          => latest.result.salt = <<>>
    /\ (VerifiedOwnPassword /\ latest.algorithm = "bcrypt")
          => (~last.threw /\ last.valid)

C5_Witness ==
    /\ VerifiedOwnPassword
    /\ latest.algorithm = "bcrypt"
    /\ latest.result.salt = <<>>
    /\ last.valid

\* C6: a record's salt is empty exactly when its algorithm is bcrypt, and
\* its algorithm field is the algorithm argument of the call.
RecordShape(r) ==
    r.present =>
        /\ r.result.algorithm = r.algorithm
        /\ r.result.algorithm \in SupportedAlgorithms
        /\ (r.result.salt = <<>>) <=> (r.result.algorithm = "bcrypt")
        /\ r.result.algorithm \in DigestAlgorithms => Len(r.result.salt) > 0

C6_RecordShape == RecordShape(latest)

C6_Witness ==
    /\ latest.present
    /\ latest.algorithm = "SHA-512"
    /\ Len(latest.result.salt) = 2 * SaltBytes

\* C7: verifyPassword under a tag outside the five supported ones throws
\* the unsupported-algorithm error, whatever the password, hash and salt.
C7_VerifyUnsupported ==
    (last.op = "verify" /\ last.algorithm \notin SupportedAlgorithms)
        => (last.threw /\ last.error = "Unsupported algorithm"
            /\ ~last.valid)

C7_Witness ==
    /\ last.op = "verify"
    /\ last.algorithm = "ROT13"
    /\ latest.algorithm = "SHA-256"
    /\ last.password = latest.password
    /\ last.threw

\* C8: hashPassword under a tag outside the five supported ones throws the
\* unsupported-algorithm error.
C8_HashUnsupported ==
    (last.op = "hash" /\ last.algorithm \notin SupportedAlgorithms)
        => (last.threw /\ last.error = "Unsupported algorithm")

\* C9: when the random source fails during a hashPassword call, the call
\* throws that failure after a single request to the source, and the
\* caller gets no record.
C9_EntropyFailurePropagates ==
    /\ []((last.op = "hash" /\ ~last.rnd.ok)
            => (/\ last.threw
                /\ last.error = "getRandomValues failed"
                /\ last.requests = 1))
    /\ [][(last'.op = "hash" /\ ~last'.rnd.ok) => latest' = latest]_vars

C9_Witness ==
    /\ last.op = "hash"
    /\ last.algorithm = "SHA-256"
    /\ ~last.rnd.ok
    /\ last.threw
    /\ ~latest.present

\* the hash of a message under a tag, from the primitives
DigestHex(algorithm, message) ==
    HexEncode(SubtleDigest(NamedDigest(algorithm), TextEncoderEncode(message)))

\* C10: a digest record's hash is the hex digest of password followed by
\* salt, verifyPassword compares against the digest of its password
\* followed by the record's salt, and salt followed by password gives
\* another hash whenever it is another string.
C10_SaltAppended ==
    /\ (latest.present /\ latest.algorithm \in DigestAlgorithms) =>
          LET p == latest.password
              s == latest.result.salt
          IN /\ latest.result.hashedPassword
                   = DigestHex(latest.algorithm, p \o s)
             /\ (p \o s # s \o p)
                   => DigestHex(latest.algorithm, s \o p)
                        # latest.result.hashedPassword
    /\ (last.op = "verify" /\ last.algorithm \in DigestAlgorithms) =>
          /\ ~last.threw
          /\ last.valid
                <=> (DigestHex(last.algorithm,
                               last.password \o latest.result.salt)
                       = latest.result.hashedPassword)

C10_Witness ==
    /\ VerifiedOwnPassword
    /\ latest.algorithm = "SHA-256"
    /\ latest.password \o latest.result.salt
          # latest.result.salt \o latest.password
    /\ last.valid

\* C11: the MD5 tag computes SHA-256: a record made under MD5 carries the
\* hash hashSHA256 gives for its password and salt, and a record made under
\* MD5 or SHA-256 verifies its password under either of the two tags.
C11_MD5IsSHA256 ==
    /\ (latest.present /\ latest.algorithm = "MD5")
          => latest.result.hashedPassword
               = hashSHA256(latest.password, latest.result.salt)
    /\ (/\ last.op = "verify"
        /\ latest.present
        /\ latest.algorithm \in {"MD5", "SHA-256"}
        /\ last.algorithm \in {"MD5", "SHA-256"}
        /\ last.password = latest.password)
          => (~last.threw /\ last.valid)

C11_Witness ==
    /\ last.op = "verify"
    /\ latest.present
    /\ latest.algorithm = "MD5"
    /\ last.algorithm = "SHA-256"
    /\ last.password = latest.password
    /\ last.valid

\* what a call in flight was called with settles to, computed on its own
SettlesAlone(f) ==
    IF f.op = "verify"
    THEN verifyPassword(f.password, f.storedHash, f.salt, f.algorithm)
    ELSE hashPassword(f.password, f.algorithm, f.rnd, 0)

LowerHexChars == (48..57) \cup (97..102)

\* the value of one lowercase hexadecimal digit
HexValue(c) == IF c <= 57 THEN c - 48 ELSE c - 87

\* C13: generateSalt(n), n positive, returns a string of exactly 2n
\* characters, all lowercase hexadecimal digits, whose i-th pair of
\* characters is the zero-padded two-digit hexadecimal numeral of the i-th
\* random byte; with the default length 32 the salt has 64 characters.
C13_SaltIsPaddedHex ==
    (gen.length > 0 /\ ~gen.threw)
        => /\ Len(gen.value) = 2 * gen.length
           /\ \A j \in 1..Len(gen.value) : gen.value[j] \in LowerHexChars
           /\ \A i \in 1..gen.length :
                 16 * HexValue(gen.value[2 * i - 1]) + HexValue(gen.value[2 * i])
                     = gen.rnd.bytes[i]
           /\ gen.length = DefaultSaltLength => Len(gen.value) = 64

\* a salt of the default length, and one with a byte below 16 (whose
\* numeral needs the padding) after a byte of two digits
C13_Witness ==
    /\ ~gen.threw
    /\ \/ gen.length = DefaultSaltLength /\ Len(gen.value) = 64
       \/ /\ gen.length = MaxSaltLength
          /\ gen.rnd.bytes[1] >= 16
          /\ gen.rnd.bytes[gen.length] < 16
          /\ gen.rnd.bytes[gen.length] > 0

\* C15: after any interleaving of handleRegister runs (suspended at their
\* await of hashPassword), deleteUser and the reset of the store, no two
\* records of the store have usernames that are equal ignoring case.
C15_UsernamesUniqueIgnoringCase ==
    \A i, j \in 1..Len(users) :
        ToLowerCase(users[i].username) = ToLowerCase(users[j].username)
            => i = j

\* a user is stored while a run that passed the first check with the same
\* name, up to case and surrounding blanks, is still suspended
C15_Witness ==
    \E i \in 1..Len(users), k \in 1..Len(regs) :
        /\ ToLowerCase(users[i].username)
               = ToLowerCase(Trim(regs[k].username))
        /\ users[i].username # Trim(regs[k].username)

\* C16: every username the registration flow stores has at least 3
\* characters and is not blank.
C16_StoredUsernameLength ==
    \A i \in 1..Len(users) :
        /\ Len(users[i].username) >= MinUsernameLength
        /\ Trim(users[i].username) # <<>>

\* a step of a handleLogin run: one starts, is resumed, or ends
LoginStep == logins' # logins \/ lastLogin' # lastLogin

\* C14: verification only reads: a step of handleLogin, verifyPassword
\* included, whether the login succeeds or fails, leaves every stored
\* record and the sequence of stored records as they were.
C14_LoginLeavesStore == [][LoginStep => users' = users]_vars

\* logins have ended both ways on a store that still holds a record: the
\* last one succeeded and its timer is pending, or the last one failed on
\* the password
C14_Witness ==
    /\ users # <<>>
    /\ \/ /\ lastLogin.outcome = "success"
          /\ \E k \in 1..Len(timers) : timers[k].kind = "login"
       \/ lastLogin.outcome = "wrong"

\* what handleLogin comes to for the form input (username, password) on the
\* store us
LoginOutcome(us, username, password) ==
    LET found == findUserByUsername(us, username)
        isValid == verifyPassword(password, found.user.hashedPassword,
                                  found.user.salt, found.user.algorithm)
    IN IF Trim(username) = <<>> \/ password = <<>> THEN "rejected"
       ELSE IF ~found.found THEN "notfound"
       ELSE IF ~isValid.threw /\ isValid.value THEN "success"
       ELSE "wrong"

\* C17: while the record of a successful handleRegister run with input
\* (u, p) is in the store, handleLogin with the same u and p finds the
\* user, verifies the password and succeeds.
C17_RegisterThenLogin ==
    (/\ lastRegister.outcome = "registered"
     /\ \E i \in 1..Len(users) :
           users[i].username = Trim(lastRegister.username))
        => LoginOutcome(users, lastRegister.username, lastRegister.password)
               = "success"

\* C18: whenever currentView is 'success', loggedInUser is the username of
\* a record in the store.
C18_SuccessViewUserStored ==
    currentView = "success"
        => \E i \in 1..Len(users) : users[i].username = loggedInUser

====
